---- MODULE Spec2Model ----
(***************************************************************************)
(* Model of the MQTT adapter of refactor/adapters/mqtt/mqtt.go.            *)
(*                                                                         *)
(* One call of Adapter.Send is modelled as a set of cooperating processes: *)
(* the calling goroutine (marshal, the loop over the recipients, the join  *)
(* on the WaitGroup, the aggregation), and for every recipient whose       *)
(* subscribe succeeded a publish goroutine and a collector goroutine.      *)
(* The transport client is the environment: it acknowledges or fails each  *)
(* subscribe and publish, and it may invoke a recipient's downlink         *)
(* callback while that recipient's subscription is active.  Every          *)
(* invocation of the callback blocks on the unbuffered channel chdown      *)
(* until the collector receives from it.                                   *)
(*                                                                         *)
(* Recipients are taken to have pairwise distinct downlink topics.  The    *)
(* 2 second timer of the collector is a nondeterministic step: it may      *)
(* fire at any moment the collector sits in its select.                    *)
(***************************************************************************)
EXTENDS Integers, Sequences, FiniteSets, TLC

\* Largest number of recipients handed to one Send.
MaxRecipients == 2

\* Largest number of downlink messages the transport delivers during one
\* Send, over all the recipients together.
MaxMsgs == 2

\* msg.Payload() of the k-th message the transport delivers on the downlink
\* topic of recipient r: every message carries bytes of its own.
Payload(r, k) == <<r, k>>

\* The nil byte slice.
Nil == <<>>

\* Largest number of inbound messages the transport delivers on the topics
\* of the bound handlers.
MaxInbound == 2

\* Largest number of goroutines that call Next.
MaxConsumers == 2

\* The handlers that may be bound, each on a topic of its own.
Handlers == {"h1", "h2", "h3"}

\* Dynamic type of a recipient: an MqttRecipient, or anything else.
RecipientKinds == {"mqtt", "other"}

VARIABLES
    recipients,  \* the recipients argument: a sequence of RecipientKinds
    marshalOK,   \* whether p.MarshalBinary() succeeds
    pc,          \* position of the goroutine that runs Send
    i,           \* index of the recipient the loop is at
    wg,          \* counter of the sync.WaitGroup
    cherr,       \* contents of the buffered channel cherr
    chresp,      \* contents of the buffered channel chresp
    sub,         \* per recipient: state of the Subscribe token
    pub,         \* per recipient: state of the publish goroutine
    col,         \* per recipient: state of the collector goroutine
    recv,        \* per recipient: which branch the collector's select took
    got,         \* per recipient: the message its collector received, or 0
    blocked,     \* per recipient: callback invocations blocked on chdown,
                 \*   each named by the number of the message it carries
    unsubs,      \* per recipient: number of Unsubscribe calls issued
    result,      \* what Send returned
    topicSub,    \* per handler: state of the Subscribe token of Bind
    bindRes,     \* per handler: what Bind returned
    inbound,     \* the inbound messages so far: the handler topic of each
    handled,     \* the invocations of Handle so far, with their arguments
    running,     \* invocations of Handle that have not reached their send
    packets,     \* the channel a.packets
    registrations, \* the channel a.registrations
    sent,        \* the PktReq in the order their send reached a.packets
    cons,        \* per consumer goroutine: idle, or waiting in Next
    nextOut,     \* what the calls of Next returned, in the order of return
    regResult    \* what the last call of NextRegistration returned

sendVars == <<recipients, marshalOK, pc, i, wg, cherr, chresp, sub, pub, col,
              recv, got, blocked, unsubs, result>>

funnelVars == <<topicSub, bindRes, inbound, handled, running, packets,
                registrations, sent, cons, nextOut, regResult>>

vars == <<sendVars, funnelVars>>

nb == Len(recipients)

Rcpts == 1..nb

NoResult == [data |-> Nil, err |-> "none"]

RECURSIVE SumOver(_, _)
SumOver(f, S) ==
    IF S = {} THEN 0
    ELSE LET x == CHOOSE y \in S : TRUE IN f[x] + SumOver(f, S \ {x})

\* Number of callback invocations of recipient r blocked on chdown.
Pending(r) == Cardinality(blocked[r])

\* Number of downlink messages the transport has delivered for recipient r.
Arrived(r) == Pending(r) + (IF got[r] > 0 THEN 1 ELSE 0)

\* Number of downlink messages the transport has delivered in all.
ArrivedInAll == SumOver([q \in Rcpts |-> Arrived(q)], Rcpts)

\* Mutation of WgInit: one unit per recipient instead of one per goroutine.
WgInit_PerRecipient(n) == n

\* wg.Add(2 * nb)
WgInit(n) == 2 * n

\* Mutation of Aggregate: the first test reads len(chresp) > 0.
Aggregate_AnyIsTooMany(resp, errs) ==
    LET errored == Len(errs) IN
    IF Len(resp) > 0 THEN [data |-> Nil, err |-> "ErrWrongBehavior"]
    ELSE IF Len(resp) = 0 /\ errored # 0
         THEN [data |-> Nil, err |-> "ErrFailedOperation"]
    ELSE [data |-> Nil, err |-> "ErrWrongBehavior"]

\* Mutation of Aggregate: the first test is missing, the first response wins.
Aggregate_FirstWins(resp, errs) ==
    LET errored == Len(errs) IN
    IF Len(resp) = 0 /\ errored # 0
    THEN [data |-> Nil, err |-> "ErrFailedOperation"]
    ELSE IF Len(resp) = 0 /\ errored = 0
         THEN [data |-> Nil, err |-> "ErrWrongBehavior"]
    ELSE [data |-> Head(resp), err |-> "nil"]

\* Mutation of Aggregate: no response is a failed operation in every case.
Aggregate_SilenceFails(resp, errs) ==
    IF Len(resp) > 1 THEN [data |-> Nil, err |-> "ErrWrongBehavior"]
    ELSE IF Len(resp) = 0
         THEN [data |-> Nil, err |-> "ErrFailedOperation"]
    ELSE [data |-> Head(resp), err |-> "nil"]

\* The decision taken after the join, from the closed channels.
Aggregate(resp, errs) ==
    LET errored == Len(errs) IN
    IF Len(resp) > 1 THEN [data |-> Nil, err |-> "ErrWrongBehavior"]
    ELSE IF Len(resp) = 0 /\ errored # 0
         THEN [data |-> Nil, err |-> "ErrFailedOperation"]
    ELSE IF Len(resp) = 0 /\ errored = 0
         THEN [data |-> Nil, err |-> "ErrWrongBehavior"]
    ELSE [data |-> Head(resp), err |-> "nil"]

RecipientLists == UNION {[1..n -> RecipientKinds] : n \in 0..MaxRecipients}

\* The goroutines that call Next.
Consumers == 1..MaxConsumers

\* A channel: the buffered values, the values of the goroutines blocked in a
\* send, and the goroutines blocked in a receive, each in order of arrival.
EmptyChan == [buf |-> <<>>, sendq |-> <<>>, recvq |-> <<>>]

\* Mutation of PacketsCap: a channel with room for every inbound message.
PacketsCap_Buffered == MaxInbound

\* make(chan PktReq): the capacity of a.packets.
PacketsCap == 0

\* make(chan RegReq): the capacity of a.registrations.
RegistrationsCap == 0

\* Mutation of Dequeue: the value that waited least is taken.
Dequeue_Last(q) == [val |-> q[Len(q)], rest |-> SubSeq(q, 1, Len(q) - 1)]

\* A receive takes the value that waited longest.
Dequeue(q) == [val |-> Head(q), rest |-> Tail(q)]

\* v is sent on channel ch of capacity cap: it is handed to the receiver
\* that waited longest (to), else buffered, else the sender blocks.
ChanSend(ch, cap, v) ==
    IF ch.recvq # <<>>
    THEN [ch |-> [ch EXCEPT !.recvq = Tail(@)], to |-> Head(ch.recvq)]
    ELSE IF Len(ch.buf) < cap
         THEN [ch |-> [ch EXCEPT !.buf = Append(@, v)], to |-> 0]
         ELSE [ch |-> [ch EXCEPT !.sendq = Append(@, v)], to |-> 0]

\* Goroutine c receives from channel ch: it takes a buffered value (a
\* blocked sender then moves into the buffer), else the value of a blocked
\* sender (got), else it blocks.
ChanRecv(ch, c) ==
    IF ch.buf # <<>>
    THEN LET d == Dequeue(ch.buf) IN
         IF ch.sendq # <<>>
         THEN LET e == Dequeue(ch.sendq) IN
              [ch |-> [buf |-> Append(d.rest, e.val), sendq |-> e.rest,
                       recvq |-> ch.recvq],
               got |-> <<d.val>>]
         ELSE [ch |-> [ch EXCEPT !.buf = d.rest], got |-> <<d.val>>]
    ELSE IF ch.sendq # <<>>
         THEN LET d == Dequeue(ch.sendq) IN
              [ch |-> [ch EXCEPT !.sendq = d.rest], got |-> <<d.val>>]
         ELSE [ch |-> [ch EXCEPT !.recvq = Append(@, c)], got |-> <<>>]

\* What NextRegistration has returned before its first call.
NoRegResult == [registration |-> "none", ack |-> "none", err |-> "none"]

\* The adapter NewAdapter returns: two fresh channels, nothing bound.
NewAdapter ==
    /\ topicSub = [h \in Handlers |-> "none"]
    /\ bindRes = [h \in Handlers |-> "none"]
    /\ inbound = <<>>
    /\ handled = <<>>
    /\ running = {}
    /\ packets = EmptyChan
    /\ registrations = EmptyChan
    /\ sent = <<>>
    /\ cons = [c \in Consumers |-> "idle"]
    /\ nextOut = <<>>
    /\ regResult = NoRegResult

Init ==
    /\ NewAdapter
    /\ recipients \in RecipientLists
    /\ marshalOK \in BOOLEAN
    /\ pc = "marshal"
    /\ i = 1
    /\ wg = 0
    /\ cherr = <<>>
    /\ chresp = <<>>
    /\ sub = [r \in Rcpts |-> "none"]
    /\ pub = [r \in Rcpts |-> "none"]
    /\ col = [r \in Rcpts |-> "none"]
    /\ recv = [r \in Rcpts |-> "none"]
    /\ got = [r \in Rcpts |-> 0]
    /\ blocked = [r \in Rcpts |-> {}]
    /\ unsubs = [r \in Rcpts |-> 0]
    /\ result = NoResult

\* Mutation of Marshal: the error of MarshalBinary is not looked at.
Marshal_ErrorIgnored ==
    /\ pc = "marshal"
    /\ pc' = "iter"
    /\ wg' = WgInit(nb)
    /\ UNCHANGED <<recipients, marshalOK, i, cherr, chresp, sub, pub, col,
                   recv, got, blocked, unsubs, result>>
    /\ UNCHANGED funnelVars

\* p.MarshalBinary(), then the allocation of the channels and wg.Add.
Marshal ==
    /\ pc = "marshal"
    /\ IF marshalOK
       THEN /\ pc' = "iter"
            /\ wg' = WgInit(nb)
            /\ UNCHANGED result
       ELSE /\ pc' = "ret"
            /\ result' = [data |-> Nil, err |-> "ErrInvalidStructure"]
            /\ UNCHANGED wg
    /\ UNCHANGED <<recipients, marshalOK, i, cherr, chresp, sub, pub, col,
                   recv, got, blocked, unsubs>>
    /\ UNCHANGED funnelVars

\* Loop body, recipient is not an MqttRecipient: record the error, continue.
IterInvalid ==
    /\ pc = "iter"
    /\ i <= nb
    /\ recipients[i] # "mqtt"
    /\ cherr' = Append(cherr, "ErrInvalidStructure")
    /\ i' = i + 1
    /\ UNCHANGED <<recipients, marshalOK, pc, wg, chresp, sub, pub, col,
                   recv, got, blocked, unsubs, result>>
    /\ UNCHANGED funnelVars

\* Mutation of IterSubscribe: the publish goroutine is started before the
\* subscribe token has been waited for.
IterSubscribe_PublishEarly ==
    /\ pc = "iter"
    /\ i <= nb
    /\ recipients[i] = "mqtt"
    /\ sub' = [sub EXCEPT ![i] = "pending"]
    /\ pub' = [pub EXCEPT ![i] = "spawned"]
    /\ pc' = "subwait"
    /\ UNCHANGED <<recipients, marshalOK, i, wg, cherr, chresp, col,
                   recv, got, blocked, unsubs, result>>
    /\ UNCHANGED funnelVars

\* Mutation of IterSubscribe: the token is not waited for, the loop goes on
\* to the next recipient at once.
IterSubscribe_NoWait ==
    /\ pc = "iter"
    /\ i <= nb
    /\ recipients[i] = "mqtt"
    /\ sub' = [sub EXCEPT ![i] = "pending"]
    /\ i' = i + 1
    /\ UNCHANGED <<recipients, marshalOK, pc, wg, cherr, chresp, pub, col,
                   recv, got, blocked, unsubs, result>>
    /\ UNCHANGED funnelVars

\* Loop body, recipient is an MqttRecipient: make chdown, issue Subscribe.
IterSubscribe ==
    /\ pc = "iter"
    /\ i <= nb
    /\ recipients[i] = "mqtt"
    /\ sub' = [sub EXCEPT ![i] = "pending"]
    /\ pc' = "subwait"
    /\ UNCHANGED <<recipients, marshalOK, i, wg, cherr, chresp, pub, col,
                   recv, got, blocked, unsubs, result>>
    /\ UNCHANGED funnelVars

\* Mutation of SubscribeAck: the continue after a failed subscribe is
\* missing, the two goroutines are spawned all the same.
SubscribeAck_NoContinue(ok) ==
    /\ pc = "subwait"
    /\ IF ok
       THEN /\ sub' = [sub EXCEPT ![i] = "ok"]
            /\ UNCHANGED cherr
       ELSE /\ sub' = [sub EXCEPT ![i] = "failed"]
            /\ cherr' = Append(cherr, "ErrFailedOperation")
    /\ pub' = [pub EXCEPT ![i] = "spawned"]
    /\ col' = [col EXCEPT ![i] = "select"]
    /\ i' = i + 1
    /\ pc' = "iter"
    /\ UNCHANGED <<recipients, marshalOK, wg, chresp, recv, got, blocked,
                   unsubs, result>>
    /\ UNCHANGED funnelVars

\* token.Wait() of the Subscribe returns.  On an error: record it, close
\* chdown, continue.  Otherwise spawn the publish and the collector goroutine.
SubscribeAck(ok) ==
    /\ pc = "subwait"
    /\ IF ok
       THEN /\ sub' = [sub EXCEPT ![i] = "ok"]
            /\ pub' = [pub EXCEPT ![i] = "spawned"]
            /\ col' = [col EXCEPT ![i] = "select"]
            /\ UNCHANGED cherr
       ELSE /\ sub' = [sub EXCEPT ![i] = "failed"]
            /\ cherr' = Append(cherr, "ErrFailedOperation")
            /\ UNCHANGED <<pub, col>>
    /\ i' = i + 1
    /\ pc' = "iter"
    /\ UNCHANGED <<recipients, marshalOK, wg, chresp, recv, got, blocked,
                   unsubs, result>>
    /\ UNCHANGED funnelVars

\* The loop is over: the caller reaches wg.Wait().
LoopEnd ==
    /\ pc = "iter"
    /\ i > nb
    /\ pc' = "join"
    /\ UNCHANGED <<recipients, marshalOK, i, wg, cherr, chresp, sub, pub, col,
                   recv, got, blocked, unsubs, result>>
    /\ UNCHANGED funnelVars

\* wg.Wait() returns, the channels are closed, the outcome is decided.
Join ==
    /\ pc = "join"
    /\ wg = 0
    /\ result' = Aggregate(chresp, cherr)
    /\ pc' = "ret"
    /\ UNCHANGED <<recipients, marshalOK, i, wg, cherr, chresp, sub, pub, col,
                   recv, got, blocked, unsubs>>
    /\ UNCHANGED funnelVars

\* Mutation of Publish: a failed publish is logged but not sent to cherr.
Publish_ErrorDropped(r, ok) ==
    /\ pub[r] = "spawned"
    /\ pub' = [pub EXCEPT ![r] = IF ok THEN "ok" ELSE "failed"]
    /\ wg' = wg - 1
    /\ UNCHANGED <<recipients, marshalOK, pc, i, cherr, chresp, sub, col,
                   recv, got, blocked, unsubs, result>>
    /\ UNCHANGED funnelVars

\* The publish goroutine of recipient r: Publish, token.Wait(), wg.Done().
Publish(r, ok) ==
    /\ pub[r] = "spawned"
    /\ IF ok
       THEN /\ pub' = [pub EXCEPT ![r] = "ok"]
            /\ UNCHANGED cherr
       ELSE /\ pub' = [pub EXCEPT ![r] = "failed"]
            /\ cherr' = Append(cherr, "ErrFailedOperation")
    /\ wg' = wg - 1
    /\ UNCHANGED <<recipients, marshalOK, pc, i, chresp, sub, col, recv,
                   got, blocked, unsubs, result>>
    /\ UNCHANGED funnelVars

\* The transport invokes the downlink callback of recipient r with a new
\* message; the invocation blocks on chdown <- msg.Payload().
Deliver(r) ==
    /\ sub[r] = "ok"
    /\ unsubs[r] = 0
    /\ ArrivedInAll < MaxMsgs
    /\ blocked' = [blocked EXCEPT ![r] = @ \cup {Arrived(r) + 1}]
    /\ UNCHANGED <<recipients, marshalOK, pc, i, wg, cherr, chresp, sub, pub,
                   col, recv, got, unsubs, result>>
    /\ UNCHANGED funnelVars

\* The collector's select takes the chdown branch: it receives the payload
\* of one blocked callback invocation, which thereby completes, and forwards
\* the payload to chresp.
CollectRecv(r, k) ==
    /\ col[r] = "select"
    /\ k \in blocked[r]
    /\ blocked' = [blocked EXCEPT ![r] = @ \ {k}]
    /\ chresp' = Append(chresp, Payload(r, k))
    /\ recv' = [recv EXCEPT ![r] = "msg"]
    /\ got' = [got EXCEPT ![r] = k]
    /\ col' = [col EXCEPT ![r] = "cleanup"]
    /\ UNCHANGED <<recipients, marshalOK, pc, i, wg, cherr, sub, pub, unsubs,
                   result>>
    /\ UNCHANGED funnelVars

\* Mutation of CollectTimeout: the select has no time.After branch.
CollectTimeout_NoTimer(r) ==
    /\ FALSE
    /\ col[r] = "select"
    /\ UNCHANGED vars

\* The collector's select takes the time.After branch.
CollectTimeout(r) ==
    /\ col[r] = "select"
    /\ recv' = [recv EXCEPT ![r] = "timeout"]
    /\ col' = [col EXCEPT ![r] = "cleanup"]
    /\ UNCHANGED <<recipients, marshalOK, pc, i, wg, cherr, chresp, sub, pub,
                   got, blocked, unsubs, result>>
    /\ UNCHANGED funnelVars

\* Mutation of CollectorExit: Unsubscribe only after a received message.
CollectorExit_UnsubOnMessage(r) ==
    /\ col[r] = "cleanup"
    /\ unsubs' = [unsubs EXCEPT ![r] = IF recv[r] = "msg" THEN @ + 1 ELSE @]
    /\ wg' = wg - 1
    /\ col' = [col EXCEPT ![r] = "done"]
    /\ UNCHANGED <<recipients, marshalOK, pc, i, cherr, chresp, sub, pub,
                   recv, got, blocked, result>>
    /\ UNCHANGED funnelVars

\* The collector's deferred calls: Unsubscribe (an error is only logged),
\* then wg.Done().
CollectorExit(r) ==
    /\ col[r] = "cleanup"
    /\ unsubs' = [unsubs EXCEPT ![r] = @ + 1]
    /\ wg' = wg - 1
    /\ col' = [col EXCEPT ![r] = "done"]
    /\ UNCHANGED <<recipients, marshalOK, pc, i, cherr, chresp, sub, pub,
                   recv, got, blocked, result>>
    /\ UNCHANGED funnelVars

\* Mutation of Bind: the error of the Subscribe token is not returned.
Bind_ErrorSwallowed(h, ok) ==
    /\ topicSub[h] = "none"
    /\ topicSub' = [topicSub EXCEPT ![h] = IF ok THEN "ok" ELSE "failed"]
    /\ bindRes' = [bindRes EXCEPT ![h] = "nil"]
    /\ UNCHANGED <<inbound, handled, running, packets, registrations, sent,
                   cons, nextOut, regResult>>
    /\ UNCHANGED sendVars

\* Bind(h): Subscribe to h.Topic(), token.Wait(), return.  Each handler is
\* bound at most once.
Bind(h, ok) ==
    /\ topicSub[h] = "none"
    /\ topicSub' = [topicSub EXCEPT ![h] = IF ok THEN "ok" ELSE "failed"]
    /\ bindRes' = [bindRes EXCEPT
                     ![h] = IF ok THEN "nil" ELSE "ErrFailedOperation"]
    /\ UNCHANGED <<inbound, handled, running, packets, registrations, sent,
                   cons, nextOut, regResult>>
    /\ UNCHANGED sendVars

\* The callback Bind subscribes with, invoked for message n: the call
\* h.Handle(client, a.packets, a.registrations, msg).
Callback(h, n) ==
    [msg |-> n, handler |-> h, chpkt |-> "packets", chreg |-> "registrations"]

\* The transport delivers a message on the topic of a bound handler h and
\* invokes the callback in a delivery context of its own.
Inbound(h) ==
    /\ topicSub[h] = "ok"
    /\ Len(inbound) < MaxInbound
    /\ inbound' = Append(inbound, h)
    /\ handled' = Append(handled, Callback(h, Len(inbound) + 1))
    /\ running' = running \cup {Len(inbound) + 1}
    /\ UNCHANGED <<topicSub, bindRes, packets, registrations, sent, cons,
                   nextOut, regResult>>
    /\ UNCHANGED sendVars

\* The PktReq a handler builds from message n: the decoded packet and a
\* fresh response channel.
MakePktReq(h, n) == [Packet |-> <<h, n>>, Chresp |-> n]

\* The RegReq a handler builds from message n.
MakeRegReq(h, n) == [Registration |-> <<h, n>>, Chresp |-> n]

\* Mutation of NextResult: the AckNacker is built without the channel.
NextResult_NoChannel(p) ==
    [packet |-> p.Packet, ack |-> [Chresp |-> 0], err |-> "nil"]

\* return p.Packet, mqttAckNacker{Chresp: p.Chresp}, nil
NextResult(p) ==
    [packet |-> p.Packet, ack |-> [Chresp |-> p.Chresp], err |-> "nil"]

\* A goroutine sends v on the channel called name.  A value handed to a
\* consumer waiting in Next makes that call of Next return.
SendOn(name, v) ==
    IF name = "packets"
    THEN LET s == ChanSend(packets, PacketsCap, v) IN
         /\ packets' = s.ch
         /\ sent' = Append(sent, v)
         /\ IF s.to # 0
            THEN /\ nextOut' = Append(nextOut,
                                      [by |-> s.to, res |-> NextResult(v)])
                 /\ cons' = [cons EXCEPT ![s.to] = "idle"]
            ELSE UNCHANGED <<nextOut, cons>>
         /\ UNCHANGED registrations
    ELSE /\ registrations' = ChanSend(registrations, RegistrationsCap, v).ch
         /\ UNCHANGED <<packets, sent, nextOut, cons>>

\* Handle of invocation n decodes a packet and enqueues a PktReq on the
\* packet channel it was given.
HandlePacket(n) ==
    /\ n \in running
    /\ running' = running \ {n}
    /\ SendOn(handled[n].chpkt, MakePktReq(handled[n].handler, n))
    /\ UNCHANGED <<topicSub, bindRes, inbound, handled, regResult>>
    /\ UNCHANGED sendVars

\* Handle of invocation n decodes a registration and enqueues a RegReq on
\* the registration channel it was given.
HandleRegistration(n) ==
    /\ n \in running
    /\ running' = running \ {n}
    /\ SendOn(handled[n].chreg, MakeRegReq(handled[n].handler, n))
    /\ UNCHANGED <<topicSub, bindRes, inbound, handled, regResult>>
    /\ UNCHANGED sendVars

\* Consumer c calls Next: p := <-a.packets, then the return.  With nothing
\* to receive the call blocks; a later send completes it (SendOn).
NextCall(c) ==
    /\ cons[c] = "idle"
    /\ LET r == ChanRecv(packets, c) IN
        /\ packets' = r.ch
        /\ IF r.got # <<>>
           THEN /\ nextOut' = Append(nextOut,
                                     [by |-> c, res |-> NextResult(r.got[1])])
                /\ UNCHANGED cons
           ELSE /\ cons' = [cons EXCEPT ![c] = "waiting"]
                /\ UNCHANGED nextOut
    /\ UNCHANGED <<topicSub, bindRes, inbound, handled, running,
                   registrations, sent, regResult>>
    /\ UNCHANGED sendVars

\* return nil, nil, nil
RegNil == [registration |-> "nil", ack |-> "nil", err |-> "nil"]

\* Mutation of NextRegistration: it receives from a.registrations, as Next
\* does from a.packets.
NextRegistration_Receives ==
    /\ registrations.sendq # <<>>
    /\ registrations' = [registrations EXCEPT !.sendq = Tail(@)]
    /\ regResult' = [registration |-> Head(registrations.sendq).Registration,
                     ack |-> Head(registrations.sendq).Chresp,
                     err |-> "nil"]
    /\ UNCHANGED <<topicSub, bindRes, inbound, handled, running, packets,
                   sent, cons, nextOut>>
    /\ UNCHANGED sendVars

\* NextRegistration(): returns nil, nil, nil.
NextRegistration ==
    /\ regResult' = RegNil
    /\ UNCHANGED <<topicSub, bindRes, inbound, handled, running, packets,
                   registrations, sent, cons, nextOut>>
    /\ UNCHANGED sendVars

Main == Marshal \/ IterInvalid \/ IterSubscribe
        \/ (\E ok \in BOOLEAN : SubscribeAck(ok)) \/ LoopEnd \/ Join

PublishTask(r) == \E ok \in BOOLEAN : Publish(r, ok)

CollectorTask(r) ==
    \/ \E k \in 1..MaxMsgs : CollectRecv(r, k)
    \/ CollectTimeout(r)
    \/ CollectorExit(r)

Next ==
    \/ Marshal
    \/ IterInvalid
    \/ IterSubscribe
    \/ \E ok \in BOOLEAN : SubscribeAck(ok)
    \/ LoopEnd
    \/ Join
    \/ \E r \in Rcpts, ok \in BOOLEAN : Publish(r, ok)
    \/ \E r \in Rcpts : Deliver(r)
    \/ \E r \in Rcpts, k \in 1..MaxMsgs : CollectRecv(r, k)
    \/ \E r \in Rcpts : CollectTimeout(r)
    \/ \E r \in Rcpts : CollectorExit(r)

Spec == Init /\ [][Next]_vars

\* The Go scheduler runs every runnable goroutine, the transport completes
\* every token, and the timer of a pending select fires.  Nothing forces the
\* transport to deliver a downlink message.
Fairness ==
    /\ WF_vars(Main)
    /\ \A r \in 1..MaxRecipients : WF_vars(r \in Rcpts /\ PublishTask(r))
    /\ \A r \in 1..MaxRecipients : WF_vars(r \in Rcpts /\ CollectorTask(r))

FairSpec == Spec /\ Fairness

\* The steps of the calling goroutine that wait for nothing but itself.
MainLocal == Marshal \/ IterInvalid \/ IterSubscribe \/ LoopEnd \/ Join

\* As Fairness, but the transport is free never to complete a Subscribe
\* token: token.Wait() may then block for ever.
SlowSubscribeFairness ==
    /\ WF_vars(MainLocal)
    /\ \A r \in 1..MaxRecipients : WF_vars(r \in Rcpts /\ PublishTask(r))
    /\ \A r \in 1..MaxRecipients : WF_vars(r \in Rcpts /\ CollectorTask(r))

SlowSubscribeSpec == Spec /\ SlowSubscribeFairness

\* The inbound funnel shares no state with a Send: it is explored on its
\* own, from an adapter on which no Send is under way.
FunnelInit ==
    /\ NewAdapter
    /\ recipients = <<>>
    /\ marshalOK = TRUE
    /\ pc = "marshal"
    /\ i = 1
    /\ wg = 0
    /\ cherr = <<>>
    /\ chresp = <<>>
    /\ sub = <<>>
    /\ pub = <<>>
    /\ col = <<>>
    /\ recv = <<>>
    /\ got = <<>>
    /\ blocked = <<>>
    /\ unsubs = <<>>
    /\ result = NoResult

FunnelNext ==
    \/ \E h \in Handlers, ok \in BOOLEAN : Bind(h, ok)
    \/ \E h \in Handlers : Inbound(h)
    \/ \E n \in 1..MaxInbound : HandlePacket(n)
    \/ \E n \in 1..MaxInbound : HandleRegistration(n)
    \/ \E c \in Consumers : NextCall(c)
    \/ NextRegistration

FunnelSpec == FunnelInit /\ [][FunnelNext]_vars

FunnelTypeOK ==
    /\ \A h \in Handlers :
        /\ topicSub[h] \in {"none", "ok", "failed"}
        /\ bindRes[h] \in {"none", "nil", "ErrFailedOperation"}
    /\ Len(inbound) <= MaxInbound
    /\ Len(handled) = Len(inbound)
    /\ running \subseteq 1..Len(inbound)
    /\ \A c \in Consumers : cons[c] \in {"idle", "waiting"}
    /\ Len(packets.buf) <= PacketsCap
    /\ Len(registrations.buf) <= RegistrationsCap
    /\ regResult \in {NoRegResult, RegNil}

TypeOK ==
    /\ recipients \in RecipientLists
    /\ marshalOK \in BOOLEAN
    /\ pc \in {"marshal", "iter", "subwait", "join", "ret"}
    /\ i \in 1..(nb + 1)
    /\ wg \in 0..(2 * nb)
    /\ Len(cherr) <= nb
    /\ Len(chresp) <= nb
    /\ \A r \in Rcpts :
        /\ sub[r] \in {"none", "pending", "ok", "failed"}
        /\ pub[r] \in {"none", "spawned", "ok", "failed"}
        /\ col[r] \in {"none", "select", "cleanup", "done"}
        /\ recv[r] \in {"none", "timeout", "msg"}
        /\ got[r] \in 0..MaxMsgs
        /\ (got[r] > 0) = (recv[r] = "msg")
        /\ blocked[r] \subseteq 1..MaxMsgs
        /\ unsubs[r] \in 0..1

----------------------------------------------------------------------------
(* Vocabulary of the properties                                            *)

\* The recipients whose collector received a payload before its timer fired.
Deliverers == {r \in Rcpts : recv[r] = "msg"}

\* Send has returned from the aggregation (not from the marshal failure).
Returned == pc = "ret" /\ marshalOK

\* No error was recorded for any recipient.
NoErrorAnywhere ==
    \A r \in Rcpts : recipients[r] = "mqtt" /\ sub[r] = "ok" /\ pub[r] = "ok"

\* The loop is over and every goroutine that was spawned has finished.
Settled ==
    /\ marshalOK
    /\ pc \in {"join", "ret"}
    /\ \A r \in Rcpts :
        pub[r] # "spawned" /\ col[r] \notin {"select", "cleanup"}

WrongBehavior == [data |-> Nil, err |-> "ErrWrongBehavior"]

FailedOperation == [data |-> Nil, err |-> "ErrFailedOperation"]

\* C1: when every recipient is a valid MQTT recipient, every subscribe and
\* publish succeeded and exactly one recipient delivered a payload before
\* its timeout, Send returns that payload with a nil error.
C1_SingleDeliveryReturned ==
    (Returned /\ NoErrorAnywhere /\ Cardinality(Deliverers) = 1)
        => \A r \in Deliverers :
               result = [data |-> Payload(r, got[r]), err |-> "nil"]

C1_Witness ==
    /\ Returned /\ NoErrorAnywhere /\ nb = 2
    /\ recv[1] = "msg" /\ recv[2] = "timeout"
    /\ result = [data |-> Payload(1, 1), err |-> "nil"]

\* C2: when two or more recipients delivered a payload before their timeout,
\* Send returns no payload and ErrWrongBehavior, whichever delivered first.
C2_ManyDeliveriesWrongBehavior ==
    (Returned /\ Cardinality(Deliverers) >= 2) => result = WrongBehavior

\* The second recipient's payload reached chresp before the first one's.
C2_Witness ==
    /\ Returned /\ nb >= 2
    /\ recv[1] = "msg" /\ recv[2] = "msg"
    /\ chresp[1] = Payload(2, 1)
    /\ result = WrongBehavior

\* C3: when no recipient delivers and an error was recorded for some
\* recipient (such as a failed subscribe), Send returns ErrFailedOperation.
C3_ErrorsOnlyFailedOperation ==
    (Settled /\ chresp = <<>> /\ cherr # <<>>)
        ~> (pc = "ret" /\ result = FailedOperation)

\* C4: every call of Send eventually returns, with exactly one outcome.
C4_SendReturns ==
    <>(pc = "ret" /\ result # NoResult
         /\ (result.data = Nil \/ result.err = "nil"))

\* C5: when no recipient delivered and no error was recorded for any
\* recipient, Send returns ErrWrongBehavior.
C5_SilenceWrongBehavior ==
    (Returned /\ NoErrorAnywhere /\ Deliverers = {}) => result = WrongBehavior

C5_Witness ==
    /\ Returned /\ NoErrorAnywhere /\ nb = 2
    /\ \A r \in Rcpts : recv[r] = "timeout"
    /\ cherr = <<>>
    /\ result = WrongBehavior

\* C6: a publish to a recipient's uplink topic is attempted only after the
\* subscribe to that recipient's downlink topic has completed successfully;
\* while the subscribe is pending, or after it failed, nothing is published.
C6_SubscribeBeforePublish ==
    \A r \in Rcpts :
        /\ pub[r] # "none" => sub[r] = "ok"
        /\ sub[r] \in {"none", "pending", "failed"} => pub[r] = "none"

\* A publish was attempted for one recipient while the subscribe of the next
\* one is still pending, and another recipient's subscribe failed.
C6_Witness ==
    \/ /\ nb = 2 /\ pub[1] \in {"ok", "failed"} /\ sub[2] = "pending"
    \/ /\ nb = 2 /\ sub[1] = "failed" /\ pub[2] \in {"ok", "failed"}

\* C7 (as stated): an unsubscribe is issued exactly once for each recipient,
\* whatever its outcome: response, timeout, publish failure or subscribe
\* failure.
C7_UnsubscribeOncePerRecipient ==
    \A r \in Rcpts :
        (recipients[r] = "mqtt" /\ (sub[r] = "failed" \/ col[r] = "done"))
            => unsubs[r] = 1

\* C7 (amended): an unsubscribe is issued exactly once for each recipient
\* whose subscribe succeeded, by its collector and whatever the outcome of
\* the wait and of the publish; none is issued for a recipient whose
\* subscribe failed.
C7_UnsubscribeOncePerSubscribed ==
    \A r \in Rcpts :
        /\ unsubs[r] <= 1
        /\ col[r] = "done" => unsubs[r] = 1
        /\ col[r] \in {"none", "select", "cleanup"} => unsubs[r] = 0
        /\ sub[r] # "ok" => unsubs[r] = 0
        /\ (Returned /\ sub[r] = "ok") => unsubs[r] = 1

C7_Witness ==
    /\ nb = 2
    /\ sub[1] = "failed" /\ unsubs[1] = 0
    /\ pub[2] = "failed" /\ recv[2] = "timeout" /\ col[2] = "done"
    /\ unsubs[2] = 1

\* C8: when exactly one response was collected, Send returns its payload
\* with a nil error, also when errors were recorded for other recipients
\* (invalid recipient, subscribe failure, publish failure).
C8_SingleResponseWins ==
    (Settled /\ Len(chresp) = 1)
        ~> (/\ pc = "ret"
            /\ Len(chresp) = 1
            /\ result = [data |-> chresp[1], err |-> "nil"])

\* C9: Send does not return before the publish goroutine and the collector
\* goroutine of every recipient have finished, each collector having
\* received a message or timed out.
C9_JoinBarrier ==
    Returned =>
        \A r \in Rcpts :
            sub[r] = "ok" =>
                /\ pub[r] \in {"ok", "failed"}
                /\ col[r] = "done"
                /\ recv[r] # "none"

\* One recipient answered, the other one's collector ran into its timeout.
C9_Witness ==
    /\ Returned /\ nb = 2
    /\ recv[1] = "msg" /\ recv[2] = "timeout"
    /\ chresp = <<Payload(1, got[1])>>

\* C10: a subscribed recipient that never delivers does not block Send: its
\* collector times out and adds nothing to chresp, so that, all recipients
\* being valid and subscribed, the join completes and Send aggregates.
C10_SilentRecipientTimesOut ==
    /\ [](\A r \in Rcpts :
            recv[r] = "timeout" =>
                \A j \in 1..Len(chresp) : chresp[j][1] # r)
    /\ (marshalOK /\ pc = "join" /\ \A r \in Rcpts : sub[r] = "ok")
           ~> (pc = "ret" /\ \A r \in Rcpts : col[r] = "done")

C10_Witness ==
    /\ Returned /\ nb = 2
    /\ \A r \in Rcpts : sub[r] = "ok"
    /\ recv[1] = "timeout" /\ Pending(1) = 0
    /\ chresp = <<>>

\* C11: when serializing the packet fails, Send returns ErrInvalidStructure
\* at once: no subscribe, publish or unsubscribe is issued, no goroutine is
\* spawned and nothing is delivered.
C11_MarshalFailureNoNetwork ==
    ~marshalOK =>
        /\ pc \in {"marshal", "ret"}
        /\ pc = "ret" => result = [data |-> Nil, err |-> "ErrInvalidStructure"]
        /\ wg = 0 /\ cherr = <<>> /\ chresp = <<>>
        /\ \A r \in Rcpts :
            /\ sub[r] = "none" /\ pub[r] = "none" /\ col[r] = "none"
            /\ unsubs[r] = 0 /\ blocked[r] = {}

C11_Witness ==
    /\ ~marshalOK /\ pc = "ret" /\ nb = 2
    /\ \A r \in Rcpts : recipients[r] = "mqtt"
    /\ result.err = "ErrInvalidStructure"

\* C16: when every recipient is valid and subscribed, some publish failed
\* and no recipient delivered, Send returns ErrFailedOperation; the
\* collector of a recipient whose publish failed still waits (here: until
\* its timeout) and still unsubscribes.
C16_PublishFailureFailedOperation ==
    /\ (/\ Returned
        /\ \A r \in Rcpts : recipients[r] = "mqtt" /\ sub[r] = "ok"
        /\ \E r \in Rcpts : pub[r] = "failed"
        /\ Deliverers = {})
           => result = FailedOperation
    /\ \A r \in Rcpts :
           pub[r] = "failed" =>
               /\ col[r] # "none"
               /\ col[r] = "done" => (recv[r] # "none" /\ unsubs[r] = 1)
               /\ Returned => col[r] = "done"

C16_Witness ==
    /\ Returned /\ nb = 2
    /\ pub[1] = "failed" /\ pub[2] = "ok"
    /\ \A r \in Rcpts : recv[r] = "timeout" /\ unsubs[r] = 1
    /\ result = FailedOperation

\* C17 (as stated): the recipients are processed independently: the
\* subscribe of every MQTT recipient is issued whether or not the subscribe
\* of another recipient is ever acknowledged.
C17_IndependentRecipients ==
    \A q \in 1..MaxRecipients :
        <>(\/ ~marshalOK
           \/ q \notin Rcpts
           \/ (q \in Rcpts /\ recipients[q] # "mqtt")
           \/ (q \in Rcpts /\ sub[q] # "none"))

\* C17 (amended): the calling goroutine subscribes for the recipients one
\* after another and waits for each subscribe: while the subscribe of a
\* recipient is pending, or the loop has not reached that recipient yet,
\* nothing has been started for any later recipient.  Only the publish and
\* the wait of recipients whose subscribe has completed run concurrently.
C17_SubscribesInSequence ==
    \A r \in Rcpts : \A q \in Rcpts :
        (r < q /\ (sub[r] = "pending" \/ i <= r)) =>
            (sub[q] = "none" /\ pub[q] = "none" /\ col[q] = "none")

\* The first subscribe is pending and the second recipient has not been
\* looked at; or both recipients' goroutines are under way at once.
C17_Witness ==
    /\ nb = 2 /\ recipients[2] = "mqtt"
    /\ \/ sub[1] = "pending" /\ sub[2] = "none"
       \/ col[1] = "select" /\ pub[1] = "spawned" /\ sub[2] = "pending"

\* C19: every invocation of a downlink callback completes its hand-off to
\* chdown: no invocation stays blocked for ever.
C19_CallbackCompletes ==
    \A r \in 1..MaxRecipients :
        (r \in Rcpts /\ blocked[r] # {}) ~> (r \in Rcpts /\ blocked[r] = {})

\* The recipients for which an error has been written to cherr.
Errored ==
    {r \in Rcpts : \/ (recipients[r] # "mqtt" /\ r < i)
                   \/ sub[r] = "failed"
                   \/ pub[r] = "failed"}

\* C20: every recipient contributes at most one response to chresp and at
\* most one error to cherr; neither channel ever holds more than nb
\* entries, so that no write to them blocks.
C20_OneEntryPerRecipient ==
    /\ Len(cherr) = Cardinality(Errored)
    /\ Len(chresp) = Cardinality(Deliverers)
    /\ \A r \in Rcpts :
           Cardinality({j \in 1..Len(chresp) : chresp[j][1] = r}) <= 1
    /\ Len(cherr) <= nb
    /\ Len(chresp) <= nb

\* Both channels are full: one error and one response per recipient.
C20_Witness ==
    /\ nb = 2 /\ Len(cherr) = 2 /\ Len(chresp) = 2

----------------------------------------------------------------------------
(* Properties of the inbound funnel, checked under FunnelSpec              *)

\* The packets the calls of Next have returned, in the order of return.
ReturnedPackets == [j \in 1..Len(nextOut) |-> nextOut[j].res.packet]

\* The packets of the PktReq still held by the channel a.packets.
HeldPackets ==
    {packets.sendq[j].Packet : j \in 1..Len(packets.sendq)}
        \cup {packets.buf[j].Packet : j \in 1..Len(packets.buf)}

\* C12: the calls of Next return the PktReq in the order in which they
\* arrived on a.packets, also when several handlers enqueue concurrently.
C12_NextFifo ==
    /\ Len(nextOut) <= Len(sent)
    /\ \A j \in 1..Len(nextOut) : ReturnedPackets[j] = sent[j].Packet

\* Two handlers raced: the second message reached the channel first, and
\* one consumer received both in two successive calls.
C12_Witness ==
    /\ Len(nextOut) = 2
    /\ nextOut[1].by = nextOut[2].by
    /\ ReturnedPackets[1][2] = 2 /\ ReturnedPackets[2][2] = 1
    /\ ReturnedPackets[1][1] # ReturnedPackets[2][1]

\* C13: every PktReq sent on a.packets is returned by at most one call of
\* Next and is otherwise still held by the channel (none is lost, none is
\* returned twice), and the call returns the request's own packet with an
\* AckNacker on that same request's response channel.
C13_ReturnedExactlyOnce ==
    /\ \A j \in 1..Len(nextOut) : \A k \in 1..Len(nextOut) :
           j # k => ReturnedPackets[j] # ReturnedPackets[k]
    /\ Len(nextOut) + Len(packets.sendq) + Len(packets.buf) = Len(sent)
    /\ {ReturnedPackets[j] : j \in 1..Len(nextOut)} \cup HeldPackets
           = {sent[j].Packet : j \in 1..Len(sent)}
    /\ \A j \in 1..Len(nextOut) :
           /\ nextOut[j].res.err = "nil"
           /\ \E k \in 1..Len(sent) :
                  /\ sent[k].Packet = nextOut[j].res.packet
                  /\ sent[k].Chresp = nextOut[j].res.ack.Chresp

\* Two consumers were blocked in Next at once; each got one request.
C13_Witness ==
    /\ Len(nextOut) = 2
    /\ nextOut[1].by # nextOut[2].by
    /\ packets.sendq = <<>>
    /\ \A c \in Consumers : cons[c] = "idle"

\* C14: NextRegistration can be called in every state (it never blocks),
\* returns nil, nil, nil and leaves both channels as they are.
C14_NextRegistrationNoOp ==
    /\ [](ENABLED NextRegistration)
    /\ [][regResult' # regResult =>
             (regResult' = RegNil /\ UNCHANGED <<packets, registrations>>)]_vars

\* NextRegistration has returned while a handler is blocked sending on each
\* of the two channels.
C14_Witness ==
    /\ regResult = RegNil
    /\ registrations.sendq # <<>>
    /\ packets.sendq # <<>>

\* C15: Bind returns ErrFailedOperation exactly when the subscribe failed
\* and nil when it succeeded; every inbound message on the topic of a bound
\* handler invokes that handler's Handle once, with a.packets and
\* a.registrations, whichever handler it is.
C15_BindAndDispatch ==
    /\ \A h \in Handlers :
        /\ topicSub[h] = "none" => bindRes[h] = "none"
        /\ topicSub[h] = "ok" => bindRes[h] = "nil"
        /\ topicSub[h] = "failed" => bindRes[h] = "ErrFailedOperation"
    /\ Len(handled) = Len(inbound)
    /\ \A n \in 1..Len(inbound) :
        /\ handled[n].msg = n
        /\ handled[n].handler = inbound[n]
        /\ bindRes[inbound[n]] = "nil"
        /\ handled[n].chpkt = "packets"
        /\ handled[n].chreg = "registrations"

\* One Bind failed, two succeeded, and both bound handlers were invoked.
C15_Witness ==
    /\ bindRes["h1"] = "ErrFailedOperation"
    /\ bindRes["h2"] = "nil" /\ bindRes["h3"] = "nil"
    /\ inbound = <<"h2", "h3">>
    /\ Len(sent) = 2

\* C18 (as stated): the funnel buffers without bound: the send of a
\* handler completes also when no call of Next is pending, no handler is
\* ever blocked on a.packets.
C18_EnqueueNeverBlocks == packets.sendq = <<>>

\* C18 (amended): a.packets buffers nothing: a PktReq sent on it is either
\* returned by a call of Next or still held by its handler, which is
\* blocked in the send; a handler is blocked only while no call of Next is
\* waiting.
C18_Unbuffered ==
    /\ packets.buf = <<>>
    /\ Len(sent) = Len(nextOut) + Len(packets.sendq)
    /\ packets.sendq # <<>> => packets.recvq = <<>>
    /\ \A c \in Consumers : (cons[c] = "waiting") =
           (\E j \in 1..Len(packets.recvq) : packets.recvq[j] = c)

\* Two handlers are blocked in their send and no call of Next is pending.
C18_Witness ==
    /\ Len(packets.sendq) = 2
    /\ \A c \in Consumers : cons[c] = "idle"
    /\ nextOut = <<>>
====
